---- MODULE Spec2Model ----
(***************************************************************************)
(* Model of the jump state machine of bevy_mod_wanderlust                  *)
(* (src/src/controller/movement.rs): the Jump component, its helper        *)
(* methods and the jump_force system, one tick per step.                   *)
(*                                                                         *)
(* Time and timers are integers counted in ticks of a time quantum; the    *)
(* controller moves along a unit up_vector, so every Vec3 written by       *)
(* jump_force is represented by its component along up_vector.             *)
(***************************************************************************)
EXTENDS Integers, FiniteSets, Sequences, TLC

(* ---------------------------------------------------------------- bounds *)
MaxJumps == 2
MaxDur == 2
MaxDt == 2
MaxCredit == 1
CapRange == 2
MaxSteps == 3

(* ------------------------------------------------------- program constants *)
\* Jump::default(): initial_force, force, and stop_force (0.3, kept in tenths).
InitialForce == 30
SustainForce == 20
StopForceTenths == 3
MaxSpeed == 100          \* max_speed 10.0, velocities in tenths
SlideUnit == 5           \* length of a normalized vector; forces in fifths
NormalLen == 5           \* length of a contact normal

(* ----------------------------------------------------------------- inputs *)
Max(a, b) == IF a >= b THEN a ELSE b
Min(a, b) == IF a <= b THEN a ELSE b

RECURSIVE Factorial(_)
Factorial(n) == IF n <= 1 THEN 1 ELSE n * Factorial(n - 1)

\* ctx.integration_parameters.dt: any positive step.
Dts == 1..MaxDt
\* Durations a Jump may be configured with: none, or the longest. The
\* cooldown may outlast the buffer and the coyote window.
Durations == {0, MaxDur}
CooldownDurations == {0, MaxDur + 1}
\* ControllerVelocity.linear relative to the last viable ground, along up.
Velocities == {10}
\* ControllerMass.mass; a multiple of every dt so that mass / dt is exact.
Mass == Factorial(MaxDt)
\* What the float and gravity systems left in their accumulators this tick.
PriorForces == {5}
\* Option<fn(f32) -> f32>: unset, or a curve (1 - x) of the jump's progress.
DecayFunctions == {"Linear"}

VARIABLES
    jumping,                 \* the Jump component
    force,                   \* JumpForce.linear
    float_force,             \* FloatForce.linear
    gravity_force,           \* GravityForce.linear
    skip_ground_check_timer, \* GroundCaster.skip_ground_check_timer
    \* observations of the last tick
    cooled,                  \* cooldown_timer <= 0 once the timers were ticked
    grounded,                \* what ground_cast.grounded() returned
    jump_inputted,           \* input.jumping && !pressed_last_frame
    branch,                  \* "none" | "launch" | "stop" | "sustain" | "idle"
    first_jump,              \* remaining_jumps == jumps when can_jump was asked
    velocity_seen,           \* the relative velocity along up it was given
    mass_over_dt,            \* mass.mass / dt where the tick used it, else 0
    float_written,           \* FloatForce.linear as the float system left it
    gravity_written,         \* GravityForce.linear as the gravity system left it
    \* history of the run
    configured,              \* the Jump component as it was constructed
    everGrounded,            \* some tick so far was grounded
    airTime,                 \* dt accumulated since the last grounded tick
    sinceFire,               \* dt accumulated since the last launch, -1 if none
    firesSinceReset,         \* launches since remaining_jumps was last reset
    fireGap,                 \* on a launch: dt accumulated since the one before, else -1
    bufWait,                 \* dt since an airborne press that could not fire, -1 if none
    bufCooling,              \* that press was made with the cooldown still running
    bufFired,                \* a launch happened since that press
    landDelay,               \* on the first grounded tick after that press: dt since it, else -1
    cutShort,                \* the input was released during the jump still running
    credit,                  \* input edges not yet answered by a launch (see Credit)
    \* Cap for Vec3
    capping,                 \* a value, a cap, and the capped value once computed
    \* movement_force
    movement,                \* the Movement component
    body,                    \* ControllerVelocity, ControllerMass and Friction
    scene,                   \* the input, timestep and ground contact of the run
    move_force,              \* MovementForce.linear
    move_seen                \* what the last movement_force run read and derived

jumpVars ==
    <<jumping, force, float_force, gravity_force, skip_ground_check_timer,
      cooled, grounded, jump_inputted, branch, first_jump,
      configured, everGrounded, airTime, sinceFire, firesSinceReset,
      fireGap, bufWait, bufCooling, bufFired, landDelay,
      velocity_seen, mass_over_dt, float_written, gravity_written,
      cutShort, credit>>
moveVars == <<movement, body, scene, move_force, move_seen>>
vars == <<jumpVars, moveVars, capping>>

\* Accumulated times are only compared with durations: they stop counting here.
TimeCap == MaxDur + 2
CapTime(t) == Min(t, TimeCap)

\* Input edges minus launches. It is exact from -1 to MaxCredit; at MaxCredit
\* the count is "many" and at -1 "a launch without a press": both stay.
Credit(c, edge, fire) ==
    IF c < 0 \/ c >= MaxCredit
    THEN c
    ELSE Max(-1, Min(MaxCredit,
             c + (IF edge THEN 1 ELSE 0) - (IF fire THEN 1 ELSE 0)))

(* ------------------------------------------------------------------ Vec3 *)
\* A Vec3 is <<x, y, z>>, with y along up_vector.
Axes == 1..3
ZERO == <<0, 0, 0>>
ONE == <<1, 1, 1>>
VAdd(a, b) == [i \in Axes |-> a[i] + b[i]]
VSub(a, b) == [i \in Axes |-> a[i] - b[i]]
VMul(a, b) == [i \in Axes |-> a[i] * b[i]]
VScale(a, k) == [i \in Axes |-> a[i] * k]
VMax(a, b) == [i \in Axes |-> Max(a[i], b[i])]
Dot(a, b) == a[1] * b[1] + a[2] * b[2] + a[3] * b[3]

\* Division rounding toward zero: the resolution of the model's numbers.
TruncDiv(a, b) == IF a >= 0 THEN a \div b ELSE -((-a) \div b)
VDiv(a, k) == [i \in Axes |-> TruncDiv(a[i], k)]

\* One axis of cap with the zero-cap test left out.
cap_axis_no_zero(v, c) ==
    IF (c < 0 /\ v < c) \/ (c > 0 /\ v > c) THEN c ELSE v

\* One axis of Cap::cap for Vec3.
cap_axis(v, c) ==
    IF c = 0 \/ (c < 0 /\ v < c) \/ (c > 0 /\ v > c) THEN c ELSE v

\* Cap::cap for Vec3
cap(v, c) == [i \in Axes |-> cap_axis(v[i], c[i])]

(* -------------------------------------------------------- movement_force *)
\* Largest n with n * n <= x.
Isqrt(x) == CHOOSE n \in 0..(x + 1) : n * n <= x /\ (n + 1) * (n + 1) > x

\* Vec3::normalize, the result having length SlideUnit.
normalize(v) == VDiv(VScale(v, SlideUnit), Isqrt(Dot(v, v)))

\* Vec3::project_onto a vector of any length.
project_onto(v, onto) == VDiv(VScale(onto, Dot(v, onto)), Dot(onto, onto))

\* Vec3::clamp_length_max(1.0): the inputs of the model are no longer than 1.
clamp_length_max(v) == IF Dot(v, v) <= 1 THEN v ELSE ZERO

\* Movement::force_scale with up_vector along y.
force_scale(m) == IF m.force_scale = "Up" THEN <<1, 0, 1>> ELSE ONE

\* Strength::get
Strength_get(acceleration, mass_dt) ==
    IF acceleration.mode = "Scaled"
    THEN acceleration.value * mass_dt
    ELSE acceleration.value

\* up_vector projected onto the plane of the contact, masked by the force
\* scale; scaled by NormalLen * NormalLen.
slip_vector(normal, fscale) ==
    VMul(VSub(<<0, NormalLen * NormalLen, 0>>, VScale(normal, normal[2])), fscale)

\* slip_vector.length() > 0.01
Slipping(contact, sv) ==
    /\ contact.current = "unstable"
    /\ 100 * 100 * Dot(sv, sv) > NormalLen * NormalLen * NormalLen * NormalLen

\* The part of the goal velocity taken away on a slope.
slip_goal(goal, sv) == VMax(project_onto(goal, sv), ZERO)

\* friction_coefficient * relative_velocity * mass / dt, the coefficient in halves
friction(contact, b, relative_velocity, mass_dt) ==
    IF contact.viable = "Ground"
    THEN VDiv(VScale(relative_velocity, b.friction_halves * mass_dt * SlideUnit), 2)
    ELSE ZERO

\* The impulse movement_force adds to the zeroed accumulator.
movement_impulse(m, b, d, input_movement, contact) ==
    LET fscale == force_scale(m)
        mass_dt == b.mass \div d
        input_goal_vel == VScale(clamp_length_max(input_movement), m.max_speed)
        sv == slip_vector(contact.normal, fscale)
        slips == Slipping(contact, sv)
        goal_vel == IF slips
                    THEN VSub(input_goal_vel,
                              VMul(slip_goal(input_goal_vel, sv), m.slip_force_scale))
                    ELSE input_goal_vel
        slide == IF slips THEN normalize(VMul(sv, fscale)) ELSE ZERO
        last_ground_vel == IF contact.viable = "None" THEN ZERO
                           ELSE contact.point_velocity
        relative_velocity == VMul(VSub(b.velocity, last_ground_vel), fscale)
        friction_force == friction(contact, b, relative_velocity, mass_dt)
        strength == Strength_get(m.acceleration, mass_dt)
        raw == VMul(VScale(input_goal_vel, strength * SlideUnit), fscale)
        clamped_velocity == cap(relative_velocity, goal_vel)
        displacement == VSub(goal_vel, clamped_velocity)
        max_movement_force ==
            VAdd(VMul(VScale(displacement, mass_dt * SlideUnit), fscale), friction_force)
        capped == cap(raw, max_movement_force)
    IN  [linear |-> VSub(VSub(capped, friction_force), slide),
         input_goal_vel |-> input_goal_vel,
         goal_vel |-> goal_vel,
         slips |-> slips,
         slip_vector |-> sv,
         relative_velocity |-> relative_velocity,
         mass_dt |-> mass_dt]

\* MovementForce.linear with the accumulator kept from the tick before.
MovementForceLinear_accumulated(previous, impulse) == VAdd(previous, impulse)

\* MovementForce.linear: zeroed, then added to.
MovementForceLinear(previous, impulse) == VAdd(ZERO, impulse)

\* Integration of the impulse by the physics step: force * dt / mass.
ApplyImpulse(velocity, linear, d, mass) ==
    VAdd(velocity, VDiv(VScale(linear, d), mass * SlideUnit))

\* Inputs of movement_force.
Accelerations ==
    {[mode |-> "Instant", value |-> 0],
     [mode |-> "Instant", value |-> 1],
     [mode |-> "Scaled", value |-> 1]}
Movements ==
    [acceleration : Accelerations,
     max_speed : {MaxSpeed},
     force_scale : {"Up", "None"},
     slip_force_scale : {ONE}]
FrictionHalves == 0..5
StartVelocities == {<<x, y, 0>> : x \in {-40, 0, 5, 200}, y \in {0, 40}}
Bodies == [velocity : StartVelocities, mass : {Mass}, friction_halves : FrictionHalves]
Inputs == {ZERO, <<1, 0, 0>>, <<-1, 0, 0>>, <<0, 0, 1>>, <<0, 0, -1>>}
FlatNormal == <<0, NormalLen, 0>>
SlopeNormals == {<<-4, 3, 0>>, <<4, 3, 0>>, <<0, 3, -4>>, <<0, 3, 4>>}
GroundVelocity == <<20, 0, 0>>
Airborne ==
    [current |-> "none", viable |-> "None", normal |-> FlatNormal,
     point_velocity |-> ZERO]
Contacts ==
    {Airborne,
     [Airborne EXCEPT !.viable = "Last", !.point_velocity = GroundVelocity]}
    \cup {[Airborne EXCEPT !.current = "stable", !.viable = "Ground",
                           !.point_velocity = pv] : pv \in {ZERO, GroundVelocity}}
    \cup {[Airborne EXCEPT !.current = "unstable", !.normal = n] :
              n \in SlopeNormals \cup {FlatNormal}}
Scenes == [dt : Dts, input : Inputs, contact : Contacts]

NothingSeen ==
    [phase |-> "none", steps |-> 0, start |-> ZERO, before |-> ZERO,
     input_goal_vel |-> ZERO, goal_vel |-> ZERO, slips |-> FALSE,
     slip_vector |-> ZERO, relative_velocity |-> ZERO, mass_dt |-> 0]

MoveAtRest ==
    /\ movement = [acceleration |-> [mode |-> "Instant", value |-> 0],
                   max_speed |-> MaxSpeed, force_scale |-> "Up",
                   slip_force_scale |-> ONE]
    /\ body = [velocity |-> ZERO, mass |-> Mass, friction_halves |-> 0]
    /\ scene = [dt |-> 1, input |-> ZERO, contact |-> Airborne]
    /\ move_force = ZERO
    /\ move_seen = NothingSeen

CapAtRest ==
    capping = [value |-> ZERO, limit |-> ZERO, done |-> FALSE, result |-> ZERO]

\* One run of the movement_force system.
movement_force(d, input_movement, contact) ==
    \E imp \in {movement_impulse(movement, body, d, input_movement, contact)} :
        /\ move_force' = MovementForceLinear(move_force, imp.linear)
        /\ move_seen' = [phase |-> "forced",
                         steps |-> move_seen.steps,
                         start |-> IF move_seen.phase = "none"
                                   THEN imp.relative_velocity ELSE move_seen.start,
                         before |-> move_force,
                         input_goal_vel |-> imp.input_goal_vel,
                         goal_vel |-> imp.goal_vel,
                         slips |-> imp.slips,
                         slip_vector |-> imp.slip_vector,
                         relative_velocity |-> imp.relative_velocity,
                         mass_dt |-> imp.mass_dt]
        /\ UNCHANGED <<movement, body, scene>>

(* ------------------------------------------------------------- Jump impl *)
\* The closure of tick_timers.
tick(timer, d) == IF timer > 0 THEN Max(timer - d, 0) ELSE timer

\* Jump::tick_timers: the fourth call ticks coyote_duration.
tick_timers(j, d) ==
    [j EXCEPT !.cooldown_timer = tick(@, d),
              !.jump_timer = tick(@, d),
              !.buffer_timer = tick(@, d),
              !.coyote_duration = tick(@, d)]

\* Jump::jumping
is_jumping(j) == j.jump_timer > 0

\* can_jump without the remaining_jumps test.
can_jump_unlimited(j, g) ==
    LET is_first == j.remaining_jumps = j.jumps
        on_ground == g \/ j.coyote_timer > 0
    IN  IF is_first /\ ~on_ground THEN FALSE ELSE j.cooldown_timer <= 0

\* can_jump without the cooldown test.
can_jump_no_cooldown(j, g) ==
    LET is_first == j.remaining_jumps = j.jumps
        on_ground == g \/ j.coyote_timer > 0
    IN  IF is_first /\ ~on_ground THEN FALSE ELSE j.remaining_jumps > 0

\* can_jump without the coyote window.
can_jump_no_coyote(j, g) ==
    IF j.remaining_jumps = j.jumps /\ ~g
    THEN FALSE
    ELSE j.cooldown_timer <= 0 /\ j.remaining_jumps > 0

\* Jump::can_jump
can_jump(j, g) ==
    LET is_first == j.remaining_jumps = j.jumps
        on_ground == g \/ j.coyote_timer > 0
    IN  IF is_first /\ ~on_ground
        THEN FALSE
        ELSE j.cooldown_timer <= 0 /\ j.remaining_jumps > 0

\* reset_jump handing out one jump too many.
reset_jump_extra(j) == [j EXCEPT !.remaining_jumps = j.jumps + 1, !.jump_timer = 0]

\* Jump::reset_jump
reset_jump(j) == [j EXCEPT !.remaining_jumps = j.jumps, !.jump_timer = 0]

\* u32::saturating_sub
saturating_sub(a, b) == IF a >= b THEN a - b ELSE 0

\* Jump::jump_progress as a fraction: numerator and divisor.
jump_progress(j) == [num |-> j.jump_duration - j.jump_timer, den |-> j.jump_duration]

\* decay_multiplier applying the curve even when decay_function is unset.
decayed_curve_always(j, f) == (f * j.jump_timer) \div j.jump_duration

\* Jump::decay_multiplier times a force f: f * curve(jump_progress), where
\* jump_progress = (jump_duration - jump_timer) / jump_duration.
decayed(j, f) ==
    IF j.decay_function = "None"
    THEN f
    ELSE (f * j.jump_timer) \div j.jump_duration

(* ------------------------------------------------------------------ Init *)
JumpConfigs ==
    [initial_force : {InitialForce},
     force : {SustainForce},
     stop_force : {StopForceTenths},
     cooldown_duration : CooldownDurations,
     jump_duration : {MaxDur + 1},
     coyote_duration : Durations,
     buffer_duration : Durations,
     skip_ground_check_duration : {MaxDur},
     decay_function : DecayFunctions,
     first_jump_grounded : BOOLEAN,
     jumps : 0..MaxJumps]

\* A freshly built Jump: timers at rest, input not pressed, and any
\* remaining_jumps up to jumps.
NewJump(c, remaining) ==
    [initial_force |-> c.initial_force,
     force |-> c.force,
     stop_force |-> c.stop_force,
     cooldown_duration |-> c.cooldown_duration,
     cooldown_timer |-> 0,
     jump_duration |-> c.jump_duration,
     jump_timer |-> 0,
     decay_function |-> c.decay_function,
     jumps |-> c.jumps,
     remaining_jumps |-> remaining,
     pressed_last_frame |-> FALSE,
     buffer_timer |-> 0,
     buffer_duration |-> c.buffer_duration,
     first_jump_grounded |-> c.first_jump_grounded,
     coyote_duration |-> c.coyote_duration,
     coyote_timer |-> 0,
     skip_ground_check_duration |-> c.skip_ground_check_duration]

\* The state around a freshly built Jump, before the first tick.
JumpAtRest ==
    /\ configured = jumping
    /\ force = 0
    /\ float_force = 0
    /\ gravity_force = 0
    /\ skip_ground_check_timer = 0
    /\ cooled = TRUE
    /\ grounded = FALSE
    /\ jump_inputted = FALSE
    /\ branch = "none"
    /\ first_jump = (jumping.remaining_jumps = jumping.jumps)
    /\ everGrounded = FALSE
    /\ airTime = 0
    /\ sinceFire = -1
    /\ firesSinceReset = 0
    /\ fireGap = -1
    /\ bufWait = -1
    /\ bufCooling = FALSE
    /\ bufFired = FALSE
    /\ landDelay = -1
    /\ velocity_seen = 0
    /\ mass_over_dt = 0
    /\ float_written = 0
    /\ gravity_written = 0
    /\ cutShort = FALSE
    /\ credit = 0

Init ==
    /\ \E c \in JumpConfigs : \E r \in 0..c.jumps : jumping = NewJump(c, r)
    /\ JumpAtRest
    /\ MoveAtRest
    /\ CapAtRest

(* ------------------------------------------------------------ jump_force *)
\* The reset done on every grounded tick, whatever the cooldown.
AfterLanding_no_cooldown(j, d, g) ==
    LET j1 == tick_timers(j, d)
        j2 == IF g THEN [j1 EXCEPT !.coyote_timer = j1.coyote_duration] ELSE j1
    IN  IF g THEN reset_jump(j2) ELSE j2

\* The Jump component after the timers, the coyote refresh and the reset.
AfterLanding(j, d, g) ==
    LET j1 == tick_timers(j, d)
        j2 == IF g THEN [j1 EXCEPT !.coyote_timer = j1.coyote_duration] ELSE j1
    IN  IF j2.cooldown_timer <= 0 /\ g THEN reset_jump(j2) ELSE j2

\* The buffer never armed.
AfterBuffer_never(j, g, edge) == j

\* The buffer is armed by an input edge in the air.
AfterBuffer(j, g, edge) ==
    IF edge /\ ~g THEN [j EXCEPT !.buffer_timer = j.buffer_duration] ELSE j

\* The launch branch's writes to the Jump component.
Launch(j) ==
    [j EXCEPT !.remaining_jumps = saturating_sub(@, 1),
              !.cooldown_timer = j.cooldown_duration,
              !.jump_timer = j.jump_duration]

\* The impulse of the launch branch: the velocity along up cancelled, plus
\* initial_force along up.
launch_impulse(j, velocity, d) ==
    (-1) * velocity * (Mass \div d) + j.initial_force

\* The impulse of an early release: the velocity projected onto up, times
\* -stop_force.
stop_impulse(j, velocity) == ((-1) * velocity * j.stop_force) \div 10

\* The impulse of a held jump.
sustain_impulse(j) == decayed(j, j.force)

\* JumpForce.linear added to what the accumulator held.
JumpForceLinear_accumulated(previous, br, j, velocity, d) ==
    previous + (CASE br = "launch" -> launch_impulse(j, velocity, d)
                  [] br = "stop" -> stop_impulse(j, velocity)
                  [] br = "sustain" -> sustain_impulse(j)
                  [] OTHER -> 0)

\* JumpForce.linear: set to zero first, then the branch adds its impulse.
JumpForceLinear(previous, br, j, velocity, d) ==
    0 + (CASE br = "launch" -> launch_impulse(j, velocity, d)
           [] br = "stop" -> stop_impulse(j, velocity)
           [] br = "sustain" -> sustain_impulse(j)
           [] OTHER -> 0)

\* The float and gravity accumulators left as written on every tick.
Zeroed_never(br, written) == written

\* FloatForce.linear and GravityForce.linear: zeroed by the launch branch.
Zeroed(br, written) == IF br = "launch" THEN 0 ELSE written

\* One run of the jump_force system for the controller.
jump_force(d, g, input_jumping, velocity, prior_float, prior_gravity) ==
    \* each intermediate value is computed once and bound to a name
    \E j2 \in {AfterLanding(jumping, d, g)} :
    \E edge \in {input_jumping /\ ~j2.pressed_last_frame} :
    \E just_jumped \in {edge \/ j2.buffer_timer > 0} :
    \E j3 \in {AfterBuffer(j2, g, edge)} :
    \E fire \in {can_jump(j3, g) /\ just_jumped} :
    \E br \in {IF fire THEN "launch"
               ELSE IF is_jumping(j3)
                    THEN (IF ~input_jumping THEN "stop" ELSE "sustain")
                    ELSE "idle"} :
    \E j4 \in {IF fire THEN Launch(j3) ELSE j3} :
    LET didReset == g /\ j2.cooldown_timer <= 0
        blocked == edge /\ ~g /\ ~fire
    IN  /\ jumping' = [j4 EXCEPT !.pressed_last_frame = input_jumping]
        /\ force' = JumpForceLinear(force, br, j3, velocity, d)
        /\ float_force' = Zeroed(br, prior_float)
        /\ gravity_force' = Zeroed(br, prior_gravity)
        /\ skip_ground_check_timer' =
               IF br = "sustain" THEN j3.skip_ground_check_duration
               ELSE skip_ground_check_timer
        /\ cooled' = (j2.cooldown_timer <= 0)
        /\ grounded' = g
        /\ jump_inputted' = edge
        /\ branch' = br
        /\ first_jump' = (j3.remaining_jumps = j3.jumps)
        /\ configured' = configured
        /\ everGrounded' = (everGrounded \/ g)
        /\ airTime' = IF g THEN 0 ELSE CapTime(airTime + d)
        /\ sinceFire' = IF fire THEN 0
                        ELSE IF sinceFire < 0 THEN -1 ELSE CapTime(sinceFire + d)
        /\ firesSinceReset' =
               Min((IF didReset THEN 0 ELSE firesSinceReset) + (IF fire THEN 1 ELSE 0),
                   MaxJumps + 1)
        /\ fireGap' = IF fire /\ sinceFire >= 0 THEN CapTime(sinceFire + d) ELSE -1
        /\ bufWait' = IF g THEN -1
                      ELSE IF bufWait >= 0 THEN CapTime(bufWait + d)
                      ELSE IF blocked THEN 0 ELSE -1
        /\ bufCooling' = IF g THEN FALSE
                         ELSE IF bufWait >= 0 THEN bufCooling
                         ELSE blocked /\ j2.cooldown_timer > 0
        /\ bufFired' = IF g \/ bufWait < 0 THEN FALSE ELSE (bufFired \/ fire)
        /\ landDelay' = IF g /\ bufWait >= 0 THEN CapTime(bufWait + d) ELSE -1
        /\ velocity_seen' = velocity
        /\ mass_over_dt' = IF br = "launch" THEN Mass \div d ELSE 0
        /\ float_written' = prior_float
        /\ gravity_written' = prior_gravity
        /\ cutShort' = IF fire \/ ~is_jumping(j3) THEN FALSE
                       ELSE (cutShort \/ br = "stop")
        /\ credit' = Credit(credit, edge, fire)

Tick ==
    \E d \in Dts, g \in BOOLEAN, input_jumping \in BOOLEAN,
       velocity \in Velocities, prior_float \in PriorForces,
       prior_gravity \in PriorForces :
        /\ jump_force(d, g, input_jumping, velocity, prior_float, prior_gravity)
        /\ UNCHANGED <<moveVars, capping>>

Next == Tick

Spec == Init /\ [][Next]_vars

(* ------------------------------------------------- movement on its own *)
\* A controller that keeps its input, timestep and ground contact.
InitMove ==
    /\ jumping = NewJump(CHOOSE c \in JumpConfigs : c.jumps = 1, 1)
    /\ JumpAtRest
    /\ CapAtRest
    /\ movement \in Movements
    /\ body \in Bodies
    /\ scene \in Scenes
    /\ move_force = ZERO
    /\ move_seen = NothingSeen

MoveTick ==
    /\ move_seen.phase # "forced"
    /\ move_seen.steps < MaxSteps
    /\ movement_force(scene.dt, scene.input, scene.contact)
    /\ UNCHANGED <<jumpVars, capping>>

\* The physics step integrates the impulse into the body's velocity.
Integrate ==
    /\ move_seen.phase = "forced"
    /\ body' = [body EXCEPT !.velocity = ApplyImpulse(@, move_force, scene.dt, body.mass)]
    /\ move_seen' = [move_seen EXCEPT !.phase = "applied", !.steps = @ + 1]
    /\ UNCHANGED <<movement, scene, move_force, jumpVars, capping>>

NextMove == MoveTick \/ Integrate

SpecMove == InitMove /\ [][NextMove]_vars

(* ------------------------------------------------- the sustained jump *)
\* Jumps of every length, with and without a decay curve.
DecayDurations == {0, 1, MaxDur + 1}
DecayConfigs ==
    {[c EXCEPT !.jump_duration = jd, !.decay_function = df] :
         c \in {k \in JumpConfigs : /\ k.jumps \in {1, MaxJumps}
                                   /\ k.cooldown_duration = 0
                                   /\ k.buffer_duration = 0
                                   /\ ~k.first_jump_grounded},
         jd \in DecayDurations,
         df \in {"None", "Linear"}}

InitDecay ==
    /\ \E c \in DecayConfigs : jumping = NewJump(c, c.jumps)
    /\ JumpAtRest
    /\ MoveAtRest
    /\ CapAtRest

NextDecay == Tick

SpecDecay == InitDecay /\ [][NextDecay]_vars

(* ------------------------------------------------- jumping off a body *)
\* gravity.up_vector, of unit length.
UP == <<0, 1, 0>>

\* The velocity along up with the ground's point velocity ignored.
relative_up_absolute(velocity, contact) == Dot(velocity, UP)

\* The velocity jump_force works with, along up: relative to the last
\* viable ground when there is one.
relative_up(velocity, contact) ==
    IF contact.viable # "None"
    THEN Dot(VSub(velocity, contact.point_velocity), UP)
    ELSE Dot(velocity, UP)

LiftVelocity == <<0, 4, 0>>
LaunchVelocities == {<<7, y, 0>> : y \in {-10, 0, 10}}
LaunchContacts ==
    {Airborne,
     [Airborne EXCEPT !.viable = "Last", !.point_velocity = LiftVelocity],
     [Airborne EXCEPT !.current = "stable", !.viable = "Ground",
                      !.point_velocity = LiftVelocity]}

\* A controller with two jumps and no timers in the way, moving at some
\* velocity over some ground.
InitLaunch ==
    /\ \E c \in JumpConfigs :
           /\ c.jumps = MaxJumps /\ c.cooldown_duration = 0 /\ c.coyote_duration = 0
           /\ c.buffer_duration = 0 /\ ~c.first_jump_grounded
           /\ jumping = NewJump(c, c.jumps)
    /\ JumpAtRest
    /\ CapAtRest
    /\ movement \in {m \in Movements : m.acceleration.mode = "Scaled" /\ m.force_scale = "Up"}
    /\ body \in [velocity : LaunchVelocities, mass : {Mass}, friction_halves : {1}]
    /\ scene \in [dt : Dts, input : {ZERO}, contact : LaunchContacts]
    /\ move_force = ZERO
    /\ move_seen = NothingSeen

\* One run of jump_force on that controller.
TickLaunch ==
    \E g \in BOOLEAN, input_jumping \in BOOLEAN,
       prior_float \in PriorForces, prior_gravity \in PriorForces :
        /\ jump_force(scene.dt, g, input_jumping,
                      relative_up(body.velocity, scene.contact),
                      prior_float, prior_gravity)
        /\ UNCHANGED <<moveVars, capping>>

NextLaunch == TickLaunch

SpecLaunch == InitLaunch /\ [][NextLaunch]_vars

(* -------------------------------------------- both force systems together *)
\* One controller with a single jump, walking onto flat ground or a slope.
InitForces ==
    /\ \E c \in JumpConfigs :
           /\ c.jumps = 1 /\ c.cooldown_duration = 0 /\ c.coyote_duration = 0
           /\ c.buffer_duration = 0 /\ ~c.first_jump_grounded
           /\ jumping = NewJump(c, 1)
    /\ JumpAtRest
    /\ CapAtRest
    /\ movement \in {m \in Movements : m.acceleration.mode = "Scaled"}
    /\ body \in {b \in Bodies : /\ b.friction_halves = 1
                               /\ b.velocity[1] > 0
                               /\ b.velocity[2] = 0}
    /\ scene \in {sc \in Scenes : /\ sc.dt = 1
                                 /\ sc.input = <<1, 0, 0>>
                                 /\ sc.contact.current # "none"
                                 /\ sc.contact.point_velocity = ZERO
                                 /\ sc.contact.normal[1] <= 0
                                 /\ sc.contact.normal[3] = 0}
    /\ move_force = ZERO
    /\ move_seen = NothingSeen

NextForces == Tick \/ MoveTick \/ Integrate

SpecForces == InitForces /\ [][NextForces]_vars

(* ------------------------------------------------------ cap on its own *)
CapValues == {<<x, y, z>> : x \in -CapRange..CapRange, y \in -CapRange..CapRange,
                           z \in -CapRange..CapRange}

InitCap ==
    /\ jumping = NewJump(CHOOSE c \in JumpConfigs : c.jumps = 1, 1)
    /\ JumpAtRest
    /\ MoveAtRest
    /\ \E v \in CapValues, c \in CapValues :
           capping = [value |-> v, limit |-> c, done |-> FALSE, result |-> v]

ApplyCap ==
    /\ ~capping.done
    /\ capping' = [capping EXCEPT !.done = TRUE, !.result = cap(capping.value, capping.limit)]
    /\ UNCHANGED <<jumpVars, moveVars>>

NextCap == ApplyCap

SpecCap == InitCap /\ [][NextCap]_vars

(* ------------------------------------------------------------ properties *)
Launched == branch = "launch"
Ticked == branch # "none"

\* C1: remaining_jumps stays within 0..jumps in every state reachable by
\* jump_force ticks from a Jump built with remaining_jumps <= jumps.
C1_JumpCountInvariant ==
    /\ jumping.remaining_jumps >= 0
    /\ jumping.remaining_jumps <= jumping.jumps

\* A launch has used up the last of several jumps.
C1_Witness ==
    /\ Launched
    /\ jumping.jumps = MaxJumps
    /\ jumping.remaining_jumps = 0

\* C2: across one tick remaining_jumps goes down only on a launch, and then by
\* exactly one; it goes up only on a grounded tick whose cooldown_timer is <= 0
\* once ticked, and then to jumps (less the launch of that tick); on a tick
\* with neither a launch nor such a reset it is unchanged.
C2_RemainingChanges ==
    [][LET before == jumping.remaining_jumps
           after == jumping'.remaining_jumps
           fired == branch' = "launch"
           reset == grounded' /\ cooled'
       IN  /\ after < before => fired /\ after = before - 1
           /\ after > before =>
                  reset /\ after = jumping'.jumps - (IF fired THEN 1 ELSE 0)
           /\ ~fired /\ ~reset => after = before]_vars

\* A grounded tick after the cooldown gave the used jumps back.
C2_Witness ==
    /\ grounded /\ cooled /\ ~Launched
    /\ sinceFire >= 0
    /\ firesSinceReset = 0
    /\ jumping.jumps >= 1
    /\ jumping.remaining_jumps = jumping.jumps

\* The configuration fields of Jump.
ConfigFields ==
    {"initial_force", "force", "stop_force", "jump_duration",
     "cooldown_duration", "coyote_duration", "buffer_duration", "jumps",
     "skip_ground_check_duration"}

\* C3: after the body was grounded and left the ground, an input edge within
\* the configured coyote_duration of the last grounded tick, made as a first
\* jump (remaining_jumps == jumps) with the cooldown over, launches although
\* the tick is not grounded.
C3_CoyoteWindow ==
    (/\ Ticked /\ ~grounded /\ everGrounded
     /\ jump_inputted
     /\ airTime < configured.coyote_duration
     /\ first_jump /\ cooled
     /\ jumping.jumps >= 1)
        => Launched

\* C4: once the body has been off the ground for longer than the configured
\* coyote_duration, coyote_timer is 0 and a first jump does not launch.
C4_CoyoteExpiry ==
    (/\ Ticked /\ ~grounded
     /\ airTime > configured.coyote_duration)
        => /\ jumping.coyote_timer = 0
           /\ first_jump => ~Launched

\* C5: jump_force ticks leave every configuration field of Jump as it was
\* constructed.
C5_ConfigImmutable ==
    \A f \in ConfigFields : jumping[f] = configured[f]

C7_MultiJumpLimit ==
    [][/\ (/\ jump_inputted' /\ grounded' /\ cooled'
           /\ jumping.jumps >= 1)
              => /\ branch' = "launch"
                 /\ jumping'.remaining_jumps = jumping.jumps - 1
       /\ (/\ jump_inputted' /\ ~grounded' /\ cooled'
           /\ jumping.remaining_jumps > 0
           /\ jumping.remaining_jumps < jumping.jumps)
              => /\ branch' = "launch"
                 /\ jumping'.remaining_jumps = jumping.remaining_jumps - 1
       /\ (~grounded' /\ jumping.remaining_jumps = 0) => branch' # "launch"
       /\ firesSinceReset' <= jumping.jumps]_vars

\* All N jumps were used and a further press in the air launched nothing.
C7_Witness ==
    /\ jumping.jumps = MaxJumps
    /\ firesSinceReset = MaxJumps
    /\ jumping.remaining_jumps = 0
    /\ ~grounded /\ jump_inputted /\ cooled
    /\ ~Launched

\* C8: a launch happens only with the cooldown over and re-arms
\* cooldown_timer to cooldown_duration; two launches are at least
\* cooldown_duration of accumulated dt apart.
C8_Cooldown ==
    /\ Launched => cooled /\ jumping.cooldown_timer = jumping.cooldown_duration
    /\ fireGap >= 0 => fireGap >= jumping.cooldown_duration

\* A second launch came exactly cooldown_duration after the first.
C8_Witness ==
    /\ Launched
    /\ jumping.cooldown_duration > 0
    /\ fireGap = jumping.cooldown_duration

C10_FirstJumpGrounded ==
    (/\ Ticked /\ ~grounded
     /\ jump_inputted
     /\ first_jump /\ cooled
     /\ jumping.jumps >= 1
     /\ jumping.coyote_timer = 0)
        => (Launched <=> ~jumping.first_jump_grounded)

\* The tick ran inside a jump: it launched, or jump_timer was still running.
JumpActive == branch \in {"launch", "stop", "sustain"}

\* C11: on every tick of an active jump FloatForce.linear and
\* GravityForce.linear are zero once jump_force has run.
C11_ZeroedWhileJumping ==
    JumpActive => (float_force = 0 /\ gravity_force = 0)

\* C11 as the code has it: jump_force zeroes both on the tick of the launch,
\* and on every other tick leaves them as the float and gravity systems wrote
\* them.
C11_ZeroedOnLaunch ==
    Ticked =>
        /\ Launched => (float_force = 0 /\ gravity_force = 0)
        /\ ~Launched =>
               (float_force = float_written /\ gravity_force = gravity_written)

\* A launch cleared what the float and gravity systems had written.
C11_Witness ==
    /\ Launched
    /\ float_written # 0 /\ gravity_written # 0
    /\ float_force = 0 /\ gravity_force = 0

\* C12: the tick of a launch arms skip_ground_check_timer with
\* skip_ground_check_duration.
C12_SkipArmedOnLaunch ==
    Launched => skip_ground_check_timer = jumping.skip_ground_check_duration

\* C13: a release during the jump leaves only the braking impulse in
\* JumpForce.linear on that tick, and the sustain force is not applied again
\* before the next launch.
C13_EarlyRelease ==
    /\ branch = "stop" => force = stop_impulse(jumping, velocity_seen)
    /\ ~(cutShort /\ branch = "sustain")

\* C19: launches never outnumber the input edges seen so far.
C19_OnePressOneJump == credit >= 0

\* The timers of Jump with the durations that bound them.
TimerOf ==
    [cooldown_timer |-> "cooldown_duration",
     jump_timer |-> "jump_duration",
     buffer_timer |-> "buffer_duration",
     coyote_timer |-> "coyote_duration"]

\* The tick that re-arms each timer.
Rearmed(t) ==
    CASE t = "cooldown_timer" -> branch' = "launch"
      [] t = "jump_timer" -> branch' = "launch"
      [] t = "buffer_timer" -> jump_inputted' /\ ~grounded'
      [] t = "coyote_timer" -> grounded'

\* C20: every timer stays within 0 and its duration, and a timer at 0 stays
\* at 0 until the event that re-arms it.
C20_TimerBounds ==
    [][\A t \in DOMAIN TimerOf :
          /\ jumping'[t] >= 0
          /\ jumping'[t] <= jumping'[TimerOf[t]]
          /\ (jumping[t] = 0 /\ ~Rearmed(t)) => jumping'[t] = 0]_vars

\* C14: on each axis cap(v, c) is 0 when c = 0, max(v, c) when c < 0 and
\* min(v, c) when c > 0, and capping a capped value changes nothing.
C14_Cap ==
    capping.done =>
        /\ \A i \in Axes :
              capping.result[i] =
                  IF capping.limit[i] = 0 THEN 0
                  ELSE IF capping.limit[i] < 0
                       THEN Max(capping.value[i], capping.limit[i])
                       ELSE Min(capping.value[i], capping.limit[i])
        /\ cap(capping.result, capping.limit) = capping.result

\* One value was capped to zero on an axis, from below on another and from
\* above on the third.
C14_Witness ==
    /\ capping.done
    /\ capping.limit = <<0, -1, 1>>
    /\ capping.value = <<1, -2, 2>>
    /\ capping.result = <<0, -1, 1>>

\* The impulse of the last movement_force run on one axis neither moves the
\* masked relative velocity away from the goal velocity nor carries it past.
\* Compared as impulses, (goal - velocity) * mass / dt, so nothing is rounded.
NoOvershoot(i) ==
    \E room \in {(move_seen.goal_vel[i] - move_seen.relative_velocity[i])
                     * move_seen.mass_dt * SlideUnit} :
        IF room >= 0
        THEN 0 <= move_force[i] /\ move_force[i] <= room
        ELSE room <= move_force[i] /\ move_force[i] <= 0

Unobstructed == scene.contact.current # "unstable"

\* C15: with a constant input direction, on every tick and axis, the movement
\* impulse moves the masked relative velocity no further from the goal
\* velocity and never past it, grounded or airborne, for every starting
\* velocity, strength and friction coefficient.
C15_NoOvershoot ==
    (move_seen.phase = "forced" /\ Unobstructed) => \A i \in Axes : NoOvershoot(i)

\* The last movement_force run was on an unstable contact steep enough to slip.
OnSlope == move_seen.phase = "forced" /\ move_seen.slips

\* The goal velocity along the up-slope direction, which is the slip vector.
Uphill(goal) == Dot(goal, move_seen.slip_vector)

\* C16: on an unstable contact with a slip vector longer than 0.01 and
\* slip_force_scale (1,1,1), whichever world axis the slope rises along, the
\* up-slope component of goal_vel is removed and a goal_vel pointing
\* down-slope is left unchanged.
C16_SlopeRejection ==
    (OnSlope /\ movement.slip_force_scale = ONE) =>
        /\ Uphill(move_seen.input_goal_vel) > 0 => Uphill(move_seen.goal_vel) = 0
        /\ Uphill(move_seen.input_goal_vel) < 0 =>
               move_seen.goal_vel = move_seen.input_goal_vel

Abs(x) == IF x < 0 THEN -x ELSE x

RECURSIVE Pow2(_)
Pow2(n) == IF n = 0 THEN 1 ELSE 2 * Pow2(n - 1)

\* No input, on a viable ground contact that does not move.
AtRest ==
    /\ scene.input = ZERO
    /\ scene.contact.viable = "Ground"
    /\ scene.contact.point_velocity = ZERO

\* The masked relative velocity after the impulse was integrated.
RelativeNow == VMul(VSub(body.velocity, scene.contact.point_velocity),
                    force_scale(movement))

\* C17: with zero input on a viable, non-moving ground contact, applying the
\* tick's impulse never increases the magnitude of the relative velocity, and
\* brings it to zero, within one unit, in a bounded number of ticks (a speed
\* below 2^n within n ticks), whatever the friction coefficient and mass.
C17_FrictionAtRest ==
    (move_seen.phase = "applied" /\ AtRest) =>
        /\ Dot(RelativeNow, RelativeNow)
               <= Dot(move_seen.relative_velocity, move_seen.relative_velocity)
        /\ \A i \in Axes :
               Abs(move_seen.start[i]) <= Pow2(move_seen.steps)
                   => Abs(RelativeNow[i]) <= 1

\* C18: the JumpForce.linear and MovementForce.linear a tick leaves are
\* functions of that tick's inputs and state alone, whatever the accumulator
\* held before; when no jump fires and none is running, JumpForce.linear is 0.
C18_Overwritten ==
    /\ Ticked =>
           force = CASE branch = "launch" ->
                            (-1) * velocity_seen * mass_over_dt + jumping.initial_force
                     [] branch = "stop" -> stop_impulse(jumping, velocity_seen)
                     [] branch = "sustain" -> sustain_impulse(jumping)
                     [] OTHER -> 0
    /\ move_seen.phase = "forced" =>
           move_force = movement_impulse(movement, body, scene.dt, scene.input,
                                         scene.contact).linear

\* Both accumulators held an impulse before and were written over: the jump
\* is over and its force is zero, the movement force differs from the last.
C18_Witness ==
    /\ branch = "idle"
    /\ sinceFire >= 0
    /\ force = 0
    /\ move_seen.phase = "forced"
    /\ move_seen.before # ZERO
    /\ move_force # move_seen.before

\* C21: on every tick that evaluates decay_multiplier (the sustain branch)
\* jump_duration > 0 and jump_progress lies within [0, 1], so the curve is
\* never evaluated outside its domain nor with a zero divisor; with
\* decay_function unset the multiplier is 1.
C21_DecayDomain ==
    branch = "sustain" =>
        /\ jump_progress(jumping).den > 0
        /\ 0 <= jump_progress(jumping).num
        /\ jump_progress(jumping).num <= jump_progress(jumping).den
        /\ jumping.decay_function = "None" => force = jumping.force

\* A jump without a curve is sustained part-way through its duration.
C21_Witness ==
    /\ branch = "sustain"
    /\ jumping.decay_function = "None"
    /\ jumping.jump_timer < jumping.jump_duration
    /\ force = jumping.force

\* The up-velocity of the ground the jump is measured against.
GroundUp ==
    IF scene.contact.viable = "None" THEN 0 ELSE Dot(scene.contact.point_velocity, UP)

\* C22: on a tick where a jump fires, with a unit up_vector, the impulse along
\* up is -(relative velocity . up) * mass / dt plus the initial jump term, the
\* velocity being relative to the last viable ground's point velocity when
\* there is one; so the up-velocity after applying it (impulse * dt / mass)
\* is the same for every prior up-velocity.
C22_NoStacking ==
    Launched =>
        /\ force = (-1) * (Dot(body.velocity, UP) - GroundUp) * mass_over_dt
                       + jumping.initial_force
        /\ Dot(body.velocity, UP) + TruncDiv(force, mass_over_dt)
               = GroundUp + TruncDiv(jumping.initial_force, mass_over_dt)

\* A second jump fires while the body rises over a moving ground.
C22_Witness ==
    /\ Launched
    /\ jumping.remaining_jumps = 0
    /\ Dot(body.velocity, UP) > 0
    /\ GroundUp # 0
====
